---------------------------- MODULE Spec2Model ----------------------------
(***************************************************************************)
(* Model of src/main.py: the subway-line map script.  One run of the       *)
(* script is a pipeline over an uploaded CSV: detect the coordinate        *)
(* columns and coerce them, drop the rows without coordinates, resolve the *)
(* name / line / order columns, build the station and path layers.         *)
(*                                                                         *)
(* Text (column names, cells, labels) is a sequence of one-character       *)
(* strings, so that lower(), "in", split() and float() are computed.       *)
(***************************************************************************)
EXTENDS Integers, Sequences, FiniteSets, TLC

VARIABLES
    pc,             \* position of the script: detect, dropna, resolve, layers, done, stopped
    uploaded,       \* the CSV as read by load_csv: [columns, rows]
    df,             \* the working frame: [columns, rows, lat, lon, line_tmp]
    lat_col,        \* lat_col (None when not resolved)
    lon_col,        \* lon_col (None when not resolved)
    before_n,       \* row count before dropna
    after_n,        \* row count after dropna
    warned,         \* the count shown by st.warning at line 187 (0: no warning)
    name_col,       \* name_col
    line_col,       \* line_col
    order_col,      \* order_col (None when not resolved)
    stations_data,  \* data of the ScatterplotLayer
    line_segments,  \* data of the PathLayer
    digest,         \* line_to_color: first 6 hex characters of the digest
    rgb             \* line_to_color: the returned [r, g, b]

vars == <<pc, uploaded, df, lat_col, lon_col, before_n, after_n, warned,
          name_col, line_col, order_col, stations_data, line_segments,
          digest, rgb>>

-----------------------------------------------------------------------------
(* Bounds of the model *)

MaxRows == 3
MaxCols == 3
MaxCellNumber == 2

-----------------------------------------------------------------------------
(* Values *)

\* Python None; the empty text is falsy like None in "if lat_col and lon_col"
None == <<>>

\* numpy NaN and a float holding a whole number
NaN == [nan |-> TRUE, v |-> 0]
Num(n) == [nan |-> FALSE, v |-> n]

-----------------------------------------------------------------------------
(* Text helpers: str.lower, "in", str.strip, str.split, float *)

UpperToLower ==
    [A |-> "a", B |-> "b", C |-> "c", D |-> "d", E |-> "e", F |-> "f",
     G |-> "g", H |-> "h", I |-> "i", J |-> "j", K |-> "k", L |-> "l",
     M |-> "m", N |-> "n", O |-> "o", P |-> "p", Q |-> "q", R |-> "r",
     S |-> "s", T |-> "t", U |-> "u", V |-> "v", W |-> "w", X |-> "x",
     Y |-> "y", Z |-> "z"]

\* str.lower()
Lower(s) ==
    [i \in 1..Len(s) |-> IF s[i] \in DOMAIN UpperToLower THEN UpperToLower[s[i]] ELSE s[i]]

\* sub in s
Contains(s, sub) ==
    \E i \in 1..(Len(s) - Len(sub) + 1) : SubSeq(s, i, i + Len(sub) - 1) = sub

\* s.startswith(prefix)
StartsWith(s, prefix) ==
    Len(s) >= Len(prefix) /\ SubSeq(s, 1, Len(prefix)) = prefix

\* x in list
InSeq(x, list) == \E i \in 1..Len(list) : list[i] = x

\* list.index(x): position of the leftmost occurrence (1-based here)
IndexOf(list, x) == CHOOSE i \in 1..Len(list) : list[i] = x /\ \A j \in 1..(i - 1) : list[j] # x

\* str.strip()
RECURSIVE LStrip(_)
LStrip(s) == IF s # <<>> /\ Head(s) = " " THEN LStrip(Tail(s)) ELSE s

RECURSIVE RStrip(_)
RStrip(s) == IF s # <<>> /\ s[Len(s)] = " " THEN RStrip(SubSeq(s, 1, Len(s) - 1)) ELSE s

Strip(s) == RStrip(LStrip(s))

\* s.find(ch): 0-based position of the first occurrence, -1 when absent
Find(s, ch) ==
    IF \E i \in 1..Len(s) : s[i] = ch
    THEN (CHOOSE i \in 1..Len(s) : s[i] = ch /\ \A j \in 1..(i - 1) : s[j] # ch) - 1
    ELSE -1

\* s.rfind(ch): 0-based position of the last occurrence, -1 when absent
RFind(s, ch) ==
    IF \E i \in 1..Len(s) : s[i] = ch
    THEN (CHOOSE i \in 1..Len(s) : s[i] = ch /\ \A j \in (i + 1)..Len(s) : s[j] # ch) - 1
    ELSE -1

\* s[a:b] for a >= 0 and any b (a negative b counts from the end)
Slice(s, a, b) ==
    LET e == IF b < 0 THEN (IF Len(s) + b < 0 THEN 0 ELSE Len(s) + b)
             ELSE (IF b > Len(s) THEN Len(s) ELSE b)
    IN  SubSeq(s, a + 1, e)

\* s.split(sep) for a one-character separator
RECURSIVE Split(_, _)
Split(s, sep) ==
    LET k == Find(s, sep)
    IN  IF k = -1 THEN <<s>>
        ELSE <<SubSeq(s, 1, k)>> \o Split(SubSeq(s, k + 2, Len(s)), sep)

\* s.split(): split on runs of blanks, no empty parts
RECURSIVE SplitWS(_)
SplitWS(s) ==
    LET t == LStrip(s)
        k == Find(t, " ")
    IN  IF t = <<>> THEN <<>>
        ELSE IF k = -1 THEN <<t>>
        ELSE <<SubSeq(t, 1, k)>> \o SplitWS(SubSeq(t, k + 2, Len(t)))

Digits == <<"0", "1", "2", "3", "4", "5", "6", "7", "8", "9">>

IsDigit(ch) == \E i \in 1..10 : Digits[i] = ch

DigitVal(ch) == (CHOOSE i \in 1..10 : Digits[i] = ch) - 1

RECURSIVE DigitsVal(_)
DigitsVal(s) ==
    IF s = <<>> THEN 0
    ELSE 10 * DigitsVal(SubSeq(s, 1, Len(s) - 1)) + DigitVal(s[Len(s)])

\* float(s) on whole-number literals: blanks around, an optional sign, digits.
\* [ok |-> FALSE] stands for the ValueError.
ParseFloat(s) ==
    LET t == Strip(s)
        signed == t # <<>> /\ Head(t) \in {"-", "+"}
        body == IF signed THEN Tail(t) ELSE t
    IN  IF body # <<>> /\ \A i \in 1..Len(body) : IsDigit(body[i])
        THEN [ok |-> TRUE,
              v |-> IF signed /\ Head(t) = "-" THEN 0 - DigitsVal(body) ELSE DigitsVal(body)]
        ELSE [ok |-> FALSE, v |-> 0]

\* ToNumericCoerce filling 0 where the cell does not parse
ToNumericCoerce_FillZero(cell) ==
    LET r == ParseFloat(cell) IN IF r.ok THEN Num(r.v) ELSE Num(0)

\* pd.to_numeric(cell, errors="coerce"): the number, NaN when it does not parse
\* (an empty cell is already NaN after read_csv)
ToNumericCoerce(cell) ==
    LET r == ParseFloat(cell) IN IF r.ok THEN Num(r.v) ELSE NaN

-----------------------------------------------------------------------------
(* detect_lat_lon *)

s_lat == <<"l", "a", "t">>
s_latt == <<"l", "a", "t", "t">>
s_lon == <<"l", "o", "n">>
s_lng == <<"l", "n", "g">>
s_long == <<"l", "o", "n", "g">>
s_latitude == <<"l", "a", "t", "i", "t", "u", "d", "e">>
s_longitude == <<"l", "o", "n", "g", "i", "t", "u", "d", "e">>
s_coord == <<"c", "o", "o", "r", "d">>
s_point == <<"p", "o", "i", "n", "t">>

\* the two tests that append to lat_candidates
LatCandidate(c) ==
    \/ Contains(Lower(c), s_lat) /\ ~Contains(Lower(c), s_latt)
    \/ Lower(c) = <<"y">>

\* the two tests that append to lon_candidates
LonCandidate(c) ==
    \/ Contains(Lower(c), s_lon) \/ Contains(Lower(c), s_lng) \/ Contains(Lower(c), s_long)
    \/ Lower(c) = <<"x">>

\* the first (alt_lat, alt_lon) of the nested loop with both names among the columns
AltPairs ==
    <<<<s_latitude, s_longitude>>, <<s_latitude, s_lon>>, <<s_latitude, s_lng>>,
      <<s_lat, s_longitude>>, <<s_lat, s_lon>>, <<s_lat, s_lng>>>>

detect_lat_lon(columns) ==
    LET lat_candidates == SelectSeq(columns, LatCandidate)
        lon_candidates == SelectSeq(columns, LonCandidate)
        hits == SelectSeq(AltPairs, LAMBDA p : InSeq(p[1], columns) /\ InSeq(p[2], columns))
    IN  IF lat_candidates # <<>> /\ lon_candidates # <<>>
        THEN <<lat_candidates[1], lon_candidates[1]>>
        ELSE IF hits # <<>> THEN hits[1]
        ELSE <<None, None>>


\* CoordColumn with the test written "coord" in name or "point": always truthy
CoordColumn_AlwaysTruthy(c) == TRUE

\* the scan at lines 43-45 and 151-152: the leftmost column naming coord or point
CoordColumn(c) == Contains(Lower(c), s_coord) \/ Contains(Lower(c), s_point)

-----------------------------------------------------------------------------
(* parse_coords_column: <<lat, lon>> as numbers, or None *)

\* parse_coords_column returning POINT(a b) as (a, b)
parse_coords_column_PointAsLatLon(cell) ==
    LET s == Strip(cell)
        p == [i \in 1..Len(Split(s, ",")) |-> Strip(Split(s, ",")[i])]
        inside == Slice(s, Find(s, "(") + 1, RFind(s, ")"))
        parts == SplitWS(inside)
    IN  IF Find(s, ",") # -1 /\ Len(p) >= 2
        THEN IF ParseFloat(p[1]).ok /\ ParseFloat(p[2]).ok
             THEN <<Num(ParseFloat(p[1]).v), Num(ParseFloat(p[2]).v)>>
             ELSE None
        ELSE IF StartsWith(Lower(s), s_point) /\ Len(parts) >= 2
             THEN IF ParseFloat(parts[1]).ok /\ ParseFloat(parts[2]).ok
                  THEN <<Num(ParseFloat(parts[1]).v), Num(ParseFloat(parts[2]).v)>>
                  ELSE None
             ELSE None

parse_coords_column(cell) ==
    LET s == Strip(cell)
        p == [i \in 1..Len(Split(s, ",")) |-> Strip(Split(s, ",")[i])]
        inside == Slice(s, Find(s, "(") + 1, RFind(s, ")"))
        parts == SplitWS(inside)
    IN  IF Find(s, ",") # -1 /\ Len(p) >= 2
        THEN IF ParseFloat(p[1]).ok /\ ParseFloat(p[2]).ok
             THEN <<Num(ParseFloat(p[1]).v), Num(ParseFloat(p[2]).v)>>
             ELSE IF ParseFloat(p[2]).ok /\ ParseFloat(p[1]).ok
                  THEN <<Num(ParseFloat(p[2]).v), Num(ParseFloat(p[1]).v)>>
                  ELSE None
        ELSE IF StartsWith(Lower(s), s_point) /\ Len(parts) >= 2
             THEN IF ParseFloat(parts[1]).ok /\ ParseFloat(parts[2]).ok
                  THEN <<Num(ParseFloat(parts[2]).v), Num(ParseFloat(parts[1]).v)>>
                  ELSE None
             ELSE None

-----------------------------------------------------------------------------
(* line_to_color *)

HexDigits == <<"0", "1", "2", "3", "4", "5", "6", "7", "8", "9",
               "a", "b", "c", "d", "e", "f">>

HexVal(ch) == (CHOOSE i \in 1..16 : HexDigits[i] = ch) - 1

\* int(h[a:a+2], 16), a 0-based
HexByte(h, a) == 16 * HexVal(h[a + 1]) + HexVal(h[a + 2])

\* Lighten with round() in place of int()
Lighten_Rounded(c) == (8 * c + 505) \div 10

\* int(c * 0.8 + 50): the float is never negative, so int() is the floor; in
\* binary floating point the result equals floor((8c + 500) / 10) for every byte c
Lighten(c) == (8 * c + 500) \div 10

\* lines 77-84, from the hex digest h
ColorOfDigest(h) == <<Lighten(HexByte(h, 0)), Lighten(HexByte(h, 2)), Lighten(HexByte(h, 4))>>

\* str(x) of a label: a missing label is the float nan
StrOf(x) == IF x = <<>> THEN <<"n", "a", "n">> ELSE x

\* hashlib.md5(text).hexdigest()[0:6] for the labels of the datasets below
Md5Hex6(text) ==
    CASE text = <<"A">> -> <<"7", "f", "c", "5", "6", "2">>
      [] text = <<"B">> -> <<"9", "d", "5", "e", "d", "6">>
      [] text = <<"1">> -> <<"c", "4", "c", "a", "4", "2">>
      [] text = <<"2">> -> <<"c", "8", "1", "e", "7", "2">>
      [] text = <<"L", "i", "n", "e">> -> <<"4", "8", "0", "3", "e", "6">>
      [] text = <<"U", "n", "k", "n", "o", "w", "n">> -> <<"8", "8", "1", "8", "3", "b">>
      [] text = <<"n", "a", "n">> -> <<"a", "3", "d", "2", "d", "e">>

line_to_color(line_name) == ColorOfDigest(Md5Hex6(StrOf(line_name)))

-----------------------------------------------------------------------------
(* The uploaded CSV files the runs start from *)

n_lat == <<"l", "a", "t">>
n_Y == <<"Y">>
n_platform == <<"p", "l", "a", "t", "f", "o", "r", "m">>
n_lattitude == <<"l", "a", "t", "t", "i", "t", "u", "d", "e">>
n_lon == <<"l", "o", "n">>
n_x == <<"x">>
n_Lng == <<"L", "n", "g">>
n_belong == <<"b", "e", "l", "o", "n", "g">>
n_coords == <<"c", "o", "o", "r", "d", "s">>
n_id == <<"i", "d">>
n_station == <<"s", "t", "a", "t", "i", "o", "n">>
n_Name == <<"N", "a", "m", "e">>
\* the Korean headers, one element per character, named by code point
n_yeokmyeong == <<"U+C5ED", "U+BA85">>
n_line == <<"l", "i", "n", "e">>
n_Route == <<"R", "o", "u", "t", "e">>
n_noseonmyeong == <<"U+B178", "U+C120", "U+BA85">>
n_order == <<"o", "r", "d", "e", "r">>
n_idx == <<"i", "d", "x">>

\* column names around the coordinate roles
CoordNamePool ==
    {n_lat, n_Y, n_platform, n_lattitude, n_lon, n_x, n_Lng, n_belong, n_coords, n_id}

\* column names around the name, line and order roles
RoleNamePool ==
    {n_station, n_Name, n_yeokmyeong, n_line, n_Route, n_noseonmyeong, n_order, n_idx, n_id}

\* no header repeats (read_csv renames a repeated header)
Distinct(q) == \A i, j \in 1..Len(q) : i # j => q[i] # q[j]

\* a file of two rows whose every cell is "1", then "2"
TwoRowFile(columns) ==
    [columns |-> columns,
     rows |-> <<[i \in 1..Len(columns) |-> <<"1">>], [i \in 1..Len(columns) |-> <<"2">>]>>]

\* files that vary the header: up to MaxCols names of one pool, the second
\* pool followed by lat and lon
HeaderFile(file) ==
    \E k \in 1..MaxCols :
        \/ \E q \in [1..k -> CoordNamePool] : Distinct(q) /\ file = TwoRowFile(q)
        \/ \E q \in [1..k -> RoleNamePool] :
              Distinct(q) /\ file = TwoRowFile(q \o <<n_lat, n_lon>>)

\* rows under the header station, line, lat, lon, order
OrderedRows ==
    {<<<<"S">>, l, a, <<"0">>, o>> :
        l \in {<<"A">>, <<"B">>}, a \in {<<"0">>, <<"1">>}, o \in {<<"1">>, <<"2">>, <<>>}}

\* rows under the header station, line, lat, lon
UnorderedRows ==
    {<<<<"S">>, l, c[1], c[2]>> :
        l \in {<<"A">>, <<"B">>, <<>>},
        c \in {<<<<"0">>, <<"0">>>>, <<<<"0">>, <<"1">>>>, <<<<"1">>, <<"0">>>>}}

\* rows under the header station, lat, lon
DirtyRows ==
    {<<<<"S">>, a, b>> :
        a \in {<<"0">>, <<"9", "5">>, <<>>},
        b \in {<<"0">>, <<"2", "0", "0">>, <<"a", "b", "c">>}}

EmbeddedCells ==
    {<<"1", ",", "2">>, <<"2", ",", " ", "1">>, <<"1", ",", "b">>,
     <<"P", "O", "I", "N", "T", "(", "1", " ", "2", ")">>,
     <<"P", "O", "I", "N", "T", "(", "1", ",", "2", ")">>,
     <<"a", "b", "c">>, <<>>}

\* rows under the header Name, coords
EmbeddedRows == {<<<<"S">>, c>> : c \in EmbeddedCells}

\* files that vary up to MaxRows rows under a fixed header
RowFile(file) ==
    \E k \in 0..MaxRows :
        \/ \E r \in [1..k -> OrderedRows] :
              file = [columns |-> <<n_station, n_line, n_lat, n_lon, n_order>>, rows |-> r]
        \/ \E r \in [1..k -> UnorderedRows] :
              file = [columns |-> <<n_station, n_line, n_lat, n_lon>>, rows |-> r]
        \/ \E r \in [1..k -> DirtyRows] :
              file = [columns |-> <<n_station, n_lat, n_lon>>, rows |-> r]
        \/ \E r \in [1..k -> EmbeddedRows] :
              file = [columns |-> <<n_Name, n_coords>>, rows |-> r]

-----------------------------------------------------------------------------
(* Frame helpers *)

\* frame[c]: the cells of column c
Column(frame, c) ==
    [i \in 1..Len(frame.rows) |-> frame.rows[i][IndexOf(frame.columns, c)]]

\* [c.lower() for c in columns]
LowerAll(columns) == [i \in 1..Len(columns) |-> Lower(columns[i])]

\* pd.to_numeric(series, errors="coerce")
ToNumericSeries(series) == [i \in 1..Len(series) |-> ToNumericCoerce(series[i])]

\* list restricted to the positions in keep, in order
RECURSIVE Take(_, _, _)
Take(list, keep, i) ==
    IF i > Len(list) THEN <<>>
    ELSE (IF i \in keep THEN <<list[i]>> ELSE <<>>) \o Take(list, keep, i + 1)

-----------------------------------------------------------------------------
(* The run *)

Init ==
    /\ pc = "detect"
    /\ HeaderFile(uploaded) \/ RowFile(uploaded)
    /\ df = [columns |-> uploaded.columns, rows |-> uploaded.rows,
             lat |-> <<>>, lon |-> <<>>, line_tmp |-> <<>>]
    /\ lat_col = None
    /\ lon_col = None
    /\ before_n = 0
    /\ after_n = 0
    /\ warned = 0
    /\ name_col = None
    /\ line_col = None
    /\ order_col = None
    /\ stations_data = <<>>
    /\ line_segments = <<>>
    /\ digest = <<>>
    /\ rgb = <<>>

\* lines 142-180: detect the coordinate columns and fill __lat__ / __lon__
\* (df.lat, df.lon), or stop the script
DetectAndPreprocess ==
    /\ pc = "detect"
    /\ LET d == detect_lat_lon(df.columns)
           coord_cols == SelectSeq(df.columns, CoordColumn)
           lowercols == LowerAll(df.columns)
           cells == Column(df, coord_cols[1])
           parsed_cells == [i \in 1..Len(cells) |-> parse_coords_column(cells[i])]
       IN  IF d[1] # None /\ d[2] # None
           THEN /\ lat_col' = d[1]
                /\ lon_col' = d[2]
                /\ df' = [df EXCEPT !.lat = ToNumericSeries(Column(df, d[1])),
                                    !.lon = ToNumericSeries(Column(df, d[2]))]
                /\ pc' = "dropna"
           ELSE IF coord_cols # <<>>
           THEN /\ lat_col' = d[1]
                /\ lon_col' = d[2]
                /\ df' = [df EXCEPT
                            !.lat = [i \in 1..Len(df.rows) |->
                                       IF parsed_cells[i] = None THEN NaN ELSE parsed_cells[i][1]],
                            !.lon = [i \in 1..Len(df.rows) |->
                                       IF parsed_cells[i] = None THEN NaN ELSE parsed_cells[i][2]]]
                /\ pc' = "dropna"
           ELSE IF InSeq(s_latitude, lowercols) /\ InSeq(s_longitude, lowercols)
           THEN /\ lat_col' = df.columns[IndexOf(lowercols, s_latitude)]
                /\ lon_col' = df.columns[IndexOf(lowercols, s_longitude)]
                /\ df' = [df EXCEPT
                            !.lat = ToNumericSeries(
                                       Column(df, df.columns[IndexOf(lowercols, s_latitude)])),
                            !.lon = ToNumericSeries(
                                       Column(df, df.columns[IndexOf(lowercols, s_longitude)]))]
                /\ pc' = "dropna"
           ELSE /\ pc' = "stopped"
                /\ UNCHANGED <<df, lat_col, lon_col>>
    /\ UNCHANGED <<uploaded, before_n, after_n, warned, name_col, line_col, order_col,
                   stations_data, line_segments, digest, rgb>>

\* lines 183-187: drop the rows without coordinates and warn with their count
DropRows ==
    /\ pc = "dropna"
    /\ LET keep == {i \in 1..Len(df.rows) : ~df.lat[i].nan /\ ~df.lon[i].nan}
       IN  /\ before_n' = Len(df.rows)
           /\ df' = [df EXCEPT !.rows = Take(df.rows, keep, 1),
                               !.lat = Take(df.lat, keep, 1),
                               !.lon = Take(df.lon, keep, 1)]
           /\ after_n' = Cardinality(keep)
           /\ warned' = IF Cardinality(keep) < Len(df.rows)
                        THEN Len(df.rows) - Cardinality(keep) ELSE 0
    /\ pc' = "resolve"
    /\ UNCHANGED <<uploaded, lat_col, lon_col, name_col, line_col, order_col,
                   stations_data, line_segments, digest, rgb>>

-----------------------------------------------------------------------------
(* lines 190-220: the name, line and order columns *)

s_station == <<"s", "t", "a", "t", "i", "o", "n">>
s_name == <<"n", "a", "m", "e">>
s_stop == <<"s", "t", "o", "p">>
s_title == <<"t", "i", "t", "l", "e">>
s_line == <<"l", "i", "n", "e">>
s_route == <<"r", "o", "u", "t", "e">>
s_branch == <<"b", "r", "a", "n", "c", "h">>
s_order == <<"o", "r", "d", "e", "r">>
s_seq == <<"s", "e", "q">>
s_sequence == <<"s", "e", "q", "u", "e", "n", "c", "e">>
s_idx == <<"i", "d", "x">>
s_line_tmp == <<"_", "l", "i", "n", "e", "_", "t", "m", "p", "_">>
s_Line == <<"L", "i", "n", "e">>
s_Unknown == <<"U", "n", "k", "n", "o", "w", "n">>

name_candidates == <<s_station, s_name, s_stop, s_title>>
line_candidates == <<s_line, s_route, s_branch>>
order_candidates == <<s_order, s_seq, s_sequence, s_idx>>

\* FirstCandidateColumn scanning the columns first: the leftmost column that
\* matches any candidate
FirstCandidateColumn_Leftmost(candidates, columns) ==
    LET hits == SelectSeq(columns, LAMBDA c : InSeq(Lower(c), candidates))
    IN  IF hits = <<>> THEN None ELSE hits[1]

\* for candidate in candidates: if candidate in lowercols: take the column at
\* lowercols.index(candidate); break.  None when no candidate is a column.
RECURSIVE FirstCandidateColumn(_, _)
FirstCandidateColumn(candidates, columns) ==
    IF candidates = <<>> THEN None
    ELSE IF InSeq(Head(candidates), LowerAll(columns))
         THEN columns[IndexOf(LowerAll(columns), Head(candidates))]
         ELSE FirstCandidateColumn(Tail(candidates), columns)

\* The frame also holds __lat__ and __lon__ by now; they match no candidate and
\* are not its first column, so df.columns stands for the header here.
ResolveRoles ==
    /\ pc = "resolve"
    /\ LET n == FirstCandidateColumn(name_candidates, df.columns)
           l == FirstCandidateColumn(line_candidates, df.columns)
       IN  /\ name_col' = IF n = None THEN df.columns[1] ELSE n
           /\ line_col' = IF l = None THEN s_line_tmp ELSE l
           /\ df' = IF l = None
                    THEN [df EXCEPT !.line_tmp = [i \in 1..Len(df.rows) |-> s_Line]]
                    ELSE df
    /\ order_col' = FirstCandidateColumn(order_candidates, df.columns)
    /\ pc' = "layers"
    /\ UNCHANGED <<uploaded, lat_col, lon_col, before_n, after_n, warned,
                   stations_data, line_segments, digest, rgb>>

-----------------------------------------------------------------------------
(* lines 235-292: the station layer and the path layer (both check boxes at
   their default, checked) *)

\* df[line_col]; an empty cell is NaN
LineValues ==
    IF line_col = s_line_tmp THEN df.line_tmp ELSE Column(df, line_col)

\* Series.unique(): the distinct values in order of first appearance
RECURSIVE Unique(_)
Unique(list) ==
    IF list = <<>> THEN <<>>
    ELSE LET u == Unique(SubSeq(list, 1, Len(list) - 1))
         IN  IF InSeq(list[Len(list)], u) THEN u ELSE Append(u, list[Len(list)])

\* df[line_col].fillna("Unknown").unique()
unique_lines ==
    Unique([i \in 1..Len(LineValues) |->
               IF LineValues[i] = <<>> THEN s_Unknown ELSE LineValues[i]])

\* df[df[line_col] == ln]: the positions of the rows of the group, ascending
\* (NaN == ln is False for every ln)
RECURSIVE Positions(_, _, _)
Positions(list, x, i) ==
    IF i > Len(list) THEN <<>>
    ELSE (IF list[i] # <<>> /\ list[i] = x THEN <<i>> ELSE <<>>) \o Positions(list, x, i + 1)

\* SkipsGroup without the "< 2" test
SkipsGroup_EmptyOnly(n) == n = 0

\* UsesAngleSort with ">= 2"
UsesAngleSort_FromTwo(n) == n >= 2

\* line 260: sub.empty or sub.shape[0] < 2
SkipsGroup(n) == n = 0 \/ n < 2

\* line 268: sub.shape[0] > 2
UsesAngleSort(n) == n > 2

\* the orders of the positions in sub
Arrangements(sub) ==
    {[i \in 1..Len(sub) |-> sub[f[i]]] :
        f \in {g \in [1..Len(sub) -> 1..Len(sub)] :
                 \A i, j \in 1..Len(sub) : i # j => g[i] # g[j]}}

\* df[order_col] of row i, a numeric column after read_csv
OrderKey(i) == ToNumericCoerce(Column(df, order_col)[i])

RECURSIVE SumOver(_, _)
SumOver(sub, series) ==
    IF sub = <<>> THEN 0 ELSE series[Head(sub)].v + SumOver(Tail(sub), series)

\* np.arctan2(lat - centroid_lat, lon - centroid_lon) compared exactly: the
\* offsets are scaled by the group size, the angles lie in (-pi, pi]
AngleDy(sub, i) == Len(sub) * df.lat[i].v - SumOver(sub, df.lat)
AngleDx(sub, i) == Len(sub) * df.lon[i].v - SumOver(sub, df.lon)

AngleSector(dx, dy) ==
    IF dy < 0 THEN 0
    ELSE IF dy = 0 /\ dx >= 0 THEN 1
    ELSE IF dy > 0 THEN 2
    ELSE 3

AngleLeq(sub, i, j) ==
    LET si == AngleSector(AngleDx(sub, i), AngleDy(sub, i))
        sj == AngleSector(AngleDx(sub, j), AngleDy(sub, j))
    IN  \/ si < sj
        \/ /\ si = sj
           /\ \/ si \in {1, 3}
              \/ AngleDx(sub, i) * AngleDy(sub, j) - AngleDy(sub, i) * AngleDx(sub, j) >= 0

\* sub.sort_values(by=order_col) with the defaults kind="quicksort",
\* na_position="last": the keys ascend, the rows without a key come last in
\* their original order, and quicksort is not a stable sort, so rows with equal
\* keys may come out in any order.
SortByOrderOutcomes(sub) ==
    {p \in Arrangements(sub) :
        \A a, b \in 1..Len(p) : a < b =>
            /\ OrderKey(p[a]).nan => OrderKey(p[b]).nan
            /\ (~OrderKey(p[a]).nan /\ ~OrderKey(p[b]).nan) =>
                  OrderKey(p[a]).v <= OrderKey(p[b]).v
            /\ (OrderKey(p[a]).nan /\ OrderKey(p[b]).nan) => p[a] < p[b]}

\* sub.sort_values(by="__angle__"), the same sort on the angles (none is NaN)
SortByAngleOutcomes(sub) ==
    {p \in Arrangements(sub) :
        \A a, b \in 1..Len(p) : a < b => AngleLeq(sub, p[a], p[b])}

\* lines 262-273: the orders sub can have when coords is taken
SubOrders(sub) ==
    IF order_col # None THEN SortByOrderOutcomes(sub)
    ELSE IF UsesAngleSort(Len(sub)) THEN SortByAngleOutcomes(sub)
    ELSE {sub}

\* sub[["__lon__", "__lat__"]].values.tolist()
Coords(p) == [k \in 1..Len(p) |-> <<df.lon[p[k]].v, df.lat[p[k]].v>>]

\* lines 258-279: the lists line_segments can end as
RECURSIVE SegmentLists(_)
SegmentLists(lines) ==
    IF lines = <<>> THEN {<<>>}
    ELSE LET ln == Head(lines)
             sub == Positions(LineValues, ln, 1)
         IN  IF SkipsGroup(Len(sub)) THEN SegmentLists(Tail(lines))
             ELSE {<<[line |-> ln, path |-> Coords(p), color |-> line_to_color(ln)]>> \o rest :
                     p \in SubOrders(sub), rest \in SegmentLists(Tail(lines))}

BuildLayers ==
    /\ pc = "layers"
    /\ stations_data' =
          [i \in 1..Len(df.rows) |->
              [row |-> df.rows[i], lat |-> df.lat[i].v, lon |-> df.lon[i].v,
               line |-> LineValues[i], color |-> line_to_color(LineValues[i])]]
    /\ line_segments' \in SegmentLists(unique_lines)
    /\ pc' = "done"
    /\ UNCHANGED <<uploaded, df, lat_col, lon_col, before_n, after_n, warned,
                   name_col, line_col, order_col, digest, rgb>>

Next == DetectAndPreprocess \/ DropRows \/ ResolveRoles \/ BuildLayers

Spec == Init /\ [][Next]_vars

-----------------------------------------------------------------------------
(* line_to_color on its own: every byte in every channel of the digest *)

\* the two hex characters of a byte, as hexdigest() writes them
HexOf(c) == <<HexDigits[(c \div 16) + 1], HexDigits[(c % 16) + 1]>>

InitColor ==
    /\ pc = "color"
    /\ \E c \in 0..255 :
          \/ digest = HexOf(c) \o HexOf(0) \o HexOf(255)
          \/ digest = HexOf(255) \o HexOf(c) \o HexOf(0)
          \/ digest = HexOf(0) \o HexOf(255) \o HexOf(c)
    /\ rgb = <<>>
    /\ uploaded = [columns |-> <<>>, rows |-> <<>>]
    /\ df = [columns |-> <<>>, rows |-> <<>>, lat |-> <<>>, lon |-> <<>>, line_tmp |-> <<>>]
    /\ lat_col = None
    /\ lon_col = None
    /\ before_n = 0
    /\ after_n = 0
    /\ warned = 0
    /\ name_col = None
    /\ line_col = None
    /\ order_col = None
    /\ stations_data = <<>>
    /\ line_segments = <<>>

\* lines 77-84 on the digest of some label
ColorCall ==
    /\ pc = "color"
    /\ rgb' = ColorOfDigest(digest)
    /\ pc' = "colored"
    /\ UNCHANGED <<uploaded, df, lat_col, lon_col, before_n, after_n, warned,
                   name_col, line_col, order_col, stations_data, line_segments, digest>>

NextColor == ColorCall

SpecColor == InitColor /\ [][NextColor]_vars

-----------------------------------------------------------------------------
(* Properties *)

\* the alias tables as the specification gives them
LatAliases == {<<"U+C704", "U+B3C4">>, s_latitude, s_lat, <<"y">>}
LonAliases == {<<"U+ACBD", "U+B3C4">>, s_longitude, s_lon, s_lng, s_long, <<"x">>}

HasAlias(columns, aliases) == \E i \in 1..Len(columns) : Lower(columns[i]) \in aliases

\* a header that names a role by an alias or by the substring rule
NamesLatitude(c) ==
    Lower(c) \in LatAliases \/ (Contains(Lower(c), s_lat) /\ ~Contains(Lower(c), s_latt))

NamesLongitude(c) ==
    \/ Lower(c) \in LonAliases
    \/ Contains(Lower(c), s_lon) \/ Contains(Lower(c), s_lng) \/ Contains(Lower(c), s_long)

NamesEmbedded(c) == Contains(Lower(c), s_coord) \/ Contains(Lower(c), s_point)

\* a cell that reads as a number: an optional sign and decimal digits
IsNumeral(cell) ==
    LET body == IF cell # <<>> /\ Head(cell) \in {"-", "+"} THEN Tail(cell) ELSE cell
    IN  body # <<>> /\ \A i \in 1..Len(body) : body[i] \in {Digits[k] : k \in 1..10}

PastDrop == pc \in {"resolve", "layers", "done"}

\* C1: whenever separate coordinate columns are resolved and the header has
\* an exact latitude (longitude) alias, the latitude (longitude) role is an
\* exact-alias column, never a column that only contains the substring.
C1_ExactAliasBeforeSubstring ==
    (pc # "detect" /\ lat_col # None /\ lon_col # None) =>
        /\ HasAlias(uploaded.columns, LatAliases) => Lower(lat_col) \in LatAliases
        /\ HasAlias(uploaded.columns, LonAliases) => Lower(lon_col) \in LonAliases

\* no header names latitude and longitude both, and none an embedded column
C2_Unresolvable ==
    /\ ~(/\ \E i \in 1..Len(uploaded.columns) : NamesLatitude(uploaded.columns[i])
         /\ \E i \in 1..Len(uploaded.columns) : NamesLongitude(uploaded.columns[i]))
    /\ ~\E i \in 1..Len(uploaded.columns) : NamesEmbedded(uploaded.columns[i])

\* C2: when no header names latitude and longitude both, and none names an
\* embedded coordinate column, the run stops and nothing is produced: no
\* coordinates, no dropped-row count, no stations, no paths, no colours.
C2_MissingCoordinatesStops ==
    (pc # "detect" /\ C2_Unresolvable) =>
        /\ pc = "stopped"
        /\ df.lat = <<>> /\ df.lon = <<>> /\ df.rows = uploaded.rows
        /\ before_n = 0 /\ after_n = 0 /\ warned = 0
        /\ name_col = None /\ line_col = None /\ order_col = None
        /\ stations_data = <<>> /\ line_segments = <<>>

\* a run stopped on a header that names latitude but not longitude
C2_Witness ==
    /\ pc = "stopped"
    /\ InSeq(n_lat, uploaded.columns)
    /\ Len(uploaded.rows) = 2

\* a row whose latitude and longitude cells both read as numbers
C3_KeptRow(row) ==
    /\ IsNumeral(row[IndexOf(uploaded.columns, lat_col)])
    /\ IsNumeral(row[IndexOf(uploaded.columns, lon_col)])

\* C3: with separate coordinate columns resolved, the rows kept are exactly
\* the uploaded rows whose latitude and longitude cells both read as numbers,
\* in the uploaded order, and the reported count is uploaded minus kept; a
\* cell that is not a number stops nothing.
C3_KeepsNumericRowsInOrder ==
    (lat_col # None /\ lon_col # None) =>
        /\ pc \in {"dropna", "resolve", "layers", "done"}
        /\ PastDrop =>
            /\ df.rows = SelectSeq(uploaded.rows, C3_KeptRow)
            /\ Len(df.lat) = Len(df.rows) /\ Len(df.lon) = Len(df.rows)
            /\ before_n = Len(uploaded.rows)
            /\ after_n = Len(df.rows)
            /\ warned = Len(uploaded.rows) - Len(df.rows)
        /\ pc = "done" => [i \in 1..Len(stations_data) |-> stations_data[i].row] = df.rows

\* a finished run that dropped a row with longitude "abc" and kept two rows
C3_Witness ==
    /\ pc = "done"
    /\ uploaded.columns = <<n_station, n_lat, n_lon>>
    /\ Len(uploaded.rows) = 3
    /\ uploaded.rows[2][3] = <<"a", "b", "c">>
    /\ warned = 1
    /\ Len(stations_data) = 2

\* C4: every kept station has latitude in [-90, 90] and longitude in
\* [-180, 180].
C4_CoordinatesInRange ==
    PastDrop =>
        \A i \in 1..Len(df.rows) :
            /\ df.lat[i].v >= -90 /\ df.lat[i].v <= 90
            /\ df.lon[i].v >= -180 /\ df.lon[i].v <= 180

\* the kept rows that carry label L, and the paths emitted for it
StationsOf(L) == {i \in 1..Len(df.rows) : LineValues[i] # <<>> /\ LineValues[i] = L}
PathsOf(L) == {k \in 1..Len(line_segments) : line_segments[k].line = L}

C6_Before(i, j) ==
    \/ ~OrderKey(i).nan /\ OrderKey(j).nan
    \/ ~OrderKey(i).nan /\ ~OrderKey(j).nan /\ OrderKey(i).v < OrderKey(j).v
    \/ OrderKey(i).nan = OrderKey(j).nan /\ OrderKey(i).v = OrderKey(j).v /\ i < j

C6_StableOrder(sub) ==
    CHOOSE p \in Arrangements(sub) : \A a, b \in 1..Len(p) : a < b => C6_Before(p[a], p[b])

\* C6: with an order column resolved, the path of every line group is the
\* group in ascending order value, equal values in row order, rows without a
\* value last in row order.
C6_StableOrderSort ==
    (pc = "done" /\ order_col # None) =>
        \A k \in 1..Len(line_segments) :
            line_segments[k].path =
                Coords(C6_StableOrder(Positions(LineValues, line_segments[k].line, 1)))

\* C7: with no order column, the path of a group of exactly 2 stations is the
\* earlier row's (lon, lat) then the later row's.
C7_TwoStationsKeepRowOrder ==
    (pc = "done" /\ order_col = None) =>
        \A k \in 1..Len(line_segments) :
            LET g == StationsOf(line_segments[k].line)
                first == CHOOSE i \in g : \A j \in g : i <= j
                last == CHOOSE i \in g : \A j \in g : j <= i
            IN  Cardinality(g) = 2 =>
                    line_segments[k].path =
                        <<<<df.lon[first].v, df.lat[first].v>>, <<df.lon[last].v, df.lat[last].v>>>>

\* a finished run without order column whose two-station group has the
\* northern station first: by angle it would come second
C7_Witness ==
    /\ pc = "done"
    /\ order_col = None
    /\ Len(df.rows) = 2
    /\ Len(line_segments) = 1
    /\ line_segments[1].path = <<<<0, 1>>, <<0, 0>>>>

\* the byte c stands in channel k of the digest
C8_ByteAt(k, c) == SubSeq(digest, 2 * k - 1, 2 * k) = HexOf(c)

C8_Clamp(v) == IF v < 0 THEN 0 ELSE IF v > 255 THEN 255 ELSE v

\* C8 as claimed: each channel is round(c * 0.8 + 50) clamped to [0, 255]
\* (tenths: 8c + 500; no byte gives an exact half).
C8_RoundedChannels ==
    pc = "colored" =>
        \A k \in 1..3 : \A c \in 0..255 :
            C8_ByteAt(k, c) => rgb[k] = C8_Clamp((8 * c + 500 + 5) \div 10)

\* C8 amended: each channel is c * 0.8 + 50 truncated to an integer, which
\* lies in [0, 255].
C8_TruncatedChannels ==
    pc = "colored" =>
        /\ Len(rgb) = 3
        /\ \A k \in 1..3 : \A c \in 0..255 :
              C8_ByteAt(k, c) =>
                 /\ 10 * rgb[k] <= 8 * c + 500
                 /\ 8 * c + 500 < 10 * rgb[k] + 10
                 /\ rgb[k] >= 0 /\ rgb[k] <= 255

\* the byte 0x01 in the red channel: 50.8 is returned as 50
C8_Witness ==
    /\ pc = "colored"
    /\ C8_ByteAt(1, 1)
    /\ rgb[1] = 50

\* a whole number as a cell writes it
RECURSIVE NumeralOf(_)
NumeralOf(n) ==
    IF n < 10 THEN <<Digits[n + 1]>>
    ELSE NumeralOf(n \div 10) \o <<Digits[(n % 10) + 1]>>

\* the cells "a,b" and "a, b", and the cell "POINT(x y)"
C9_PairCells(a, b) ==
    {NumeralOf(a) \o <<",">> \o NumeralOf(b), NumeralOf(a) \o <<",", " ">> \o NumeralOf(b)}

C9_PointCell(x, y) ==
    <<"P", "O", "I", "N", "T", "(">> \o NumeralOf(x) \o <<" ">> \o NumeralOf(y) \o <<")">>

C9_Parses(cell) ==
    \E a, b \in 0..MaxCellNumber : cell \in C9_PairCells(a, b) \/ cell = C9_PointCell(a, b)

\* the embedded-coordinate column: the leftmost header naming coord or point
C9_Column ==
    CHOOSE i \in 1..Len(uploaded.columns) :
        /\ NamesEmbedded(uploaded.columns[i])
        /\ \A j \in 1..(i - 1) : ~NamesEmbedded(uploaded.columns[j])

C9_KeptRow(row) == C9_Parses(row[C9_Column])

\* C9: when the coordinates come from an embedded column, a cell "a,b" gives
\* latitude a and longitude b, a cell "POINT(x y)" gives longitude x and
\* latitude y, any other cell gives no coordinates; the rows without
\* coordinates are dropped and counted and the run goes on.
C9_EmbeddedCoordinates ==
    (pc \in {"dropna", "resolve", "layers", "done"} /\ lat_col = None) =>
        /\ pc = "dropna" =>
              \A i \in 1..Len(uploaded.rows) :
                 LET cell == uploaded.rows[i][C9_Column]
                 IN  /\ \A a, b \in 0..MaxCellNumber :
                          /\ cell \in C9_PairCells(a, b) =>
                                df.lat[i] = Num(a) /\ df.lon[i] = Num(b)
                          /\ cell = C9_PointCell(a, b) =>
                                df.lon[i] = Num(a) /\ df.lat[i] = Num(b)
                     /\ ~C9_Parses(cell) => df.lat[i] = NaN /\ df.lon[i] = NaN
        /\ PastDrop =>
              /\ df.rows = SelectSeq(uploaded.rows, C9_KeptRow)
              /\ warned = Len(uploaded.rows) - Len(df.rows)

\* a finished run that read "POINT(1 2)" as longitude 1, latitude 2, read
\* "2, 1" as latitude 2, longitude 1, and dropped the row "abc"
C9_Witness ==
    /\ pc = "done"
    /\ lat_col = None
    /\ Len(uploaded.rows) = 3
    /\ uploaded.rows[1][2] = C9_PointCell(1, 2)
    /\ uploaded.rows[2][2] = <<"a", "b", "c">>
    /\ uploaded.rows[3][2] = <<"2", ",", " ", "1">>
    /\ warned = 1
    /\ df.lon = <<Num(1), Num(1)>>
    /\ df.lat = <<Num(2), Num(2)>>

\* a role resolved by an alias table: the leftmost column that matches the
\* earliest alias a column matches
C10_NoAlias(aliases, columns) ==
    \A k \in 1..Len(aliases) : \A i \in 1..Len(columns) : Lower(columns[i]) # aliases[k]

C10_ByAlias(col, aliases, columns) ==
    \E k \in 1..Len(aliases) : \E i \in 1..Len(columns) :
        /\ columns[i] = col
        /\ Lower(col) = aliases[k]
        /\ \A i2 \in 1..(i - 1) : Lower(columns[i2]) # aliases[k]
        /\ C10_NoAlias(SubSeq(aliases, 1, k - 1), columns)

C10_Roles(name_aliases, line_aliases, order_aliases) ==
    pc \in {"layers", "done"} =>
        /\ IF C10_NoAlias(name_aliases, uploaded.columns)
           THEN name_col = uploaded.columns[1]
           ELSE C10_ByAlias(name_col, name_aliases, uploaded.columns)
        /\ IF C10_NoAlias(line_aliases, uploaded.columns)
           THEN /\ line_col \notin {uploaded.columns[i] : i \in 1..Len(uploaded.columns)}
                /\ LineValues = [i \in 1..Len(df.rows) |-> s_Line]
           ELSE /\ C10_ByAlias(line_col, line_aliases, uploaded.columns)
                /\ LineValues = Column(df, line_col)
        /\ IF C10_NoAlias(order_aliases, uploaded.columns)
           THEN order_col = None
           ELSE C10_ByAlias(order_col, order_aliases, uploaded.columns)

\* C10 as claimed: the tables name: U+C5ED U+BA85, station, name, stop, title;
\* line: U+B178 U+C120 U+BA85, line, route, branch; order: order, seq,
\* sequence, idx.
C10_RolesWithKoreanAliases ==
    C10_Roles(<<n_yeokmyeong, s_station, s_name, s_stop, s_title>>,
              <<n_noseonmyeong, s_line, s_route, s_branch>>,
              <<s_order, s_seq, s_sequence, s_idx>>)

\* C10 amended: the tables name: station, name, stop, title; line: line,
\* route, branch; order: order, seq, sequence, idx.
C10_RolesByAliasPriority ==
    C10_Roles(<<s_station, s_name, s_stop, s_title>>,
              <<s_line, s_route, s_branch>>,
              <<s_order, s_seq, s_sequence, s_idx>>)

\* a finished run on the header Name, idx, station, lat, lon: the name is the
\* third column, not the first
C10_Witness ==
    /\ pc = "done"
    /\ uploaded.columns = <<n_Name, n_idx, n_station, n_lat, n_lon>>
    /\ name_col = n_station
    /\ order_col = n_idx
    /\ line_col = s_line_tmp

=============================================================================
